---- MODULE Spec2Model ----
(***************************************************************************)
(* Feedback-to-ticket pipeline: the Gemini adapter (gemini_client.py), the *)
(* rule-based fallbacks, decision steps, critic, ticket builder and        *)
(* metrics (tool_gemini.py) and the batch loop (autogen_pipeline.py).      *)
(*                                                                         *)
(* Encoding.  A Python str is a sequence of one-character strings, so that *)
(* lower(), the "in" substring test, slicing and concatenation are         *)
(* computed.  A float confidence is an integer number of hundredths        *)
(* (0.95 is 95); a mean or a fraction is the pair <<numerator,             *)
(* denominator>> of the exact quotient.  A Python dict is a record with a  *)
(* field "keys" holding the keys that are present.                         *)
(***************************************************************************)
EXTENDS Integers, Sequences, FiniteSets, TLC

VARIABLES
  enabled,          \* GeminiClient.enabled
  reviews,          \* df_reviews, a sequence of rows
  emails,           \* df_support, a sequence of rows
  expected,         \* expected_df, or the absent reference
  pc,               \* position of main()
  idx,              \* number of rows of the current loop already consumed
  cur,              \* locals of row_to_ticket for the row in progress
  tickets,          \* tickets
  processing_rows,  \* processing_rows
  metrics,          \* the single row of metrics_df
  fault,            \* the exception that ended main(), or "none"
  arg,              \* argument of the function under unit check
  ret,              \* its return value
  phase             \* "idle" | "call" | "returned"

vars == << enabled, reviews, emails, expected, pc, idx, cur, tickets,
           processing_rows, metrics, fault, arg, ret, phase >>

pipelineVars == << enabled, reviews, emails, expected, pc, idx, cur, tickets,
                   processing_rows, metrics, fault >>

unitVars == << arg, ret, phase >>

(***************************************************************************)
(* Bounds of the model.                                                    *)
(***************************************************************************)
MaxFrags == 2        \* a unit-check text is at most this many fragments
MaxReplyLen == 4     \* a backend reply is at most this many tokens
MaxItems == 2        \* reviews plus emails in a batch
MaxLogRows == 2      \* rows of a processing log given to compute_metrics alone
MaxRefRows == 2      \* rows of a reference table given to compute_metrics alone

(***************************************************************************)
(* Python str operations.                                                  *)
(***************************************************************************)
Min(a, b) == IF a <= b THEN a ELSE b

UpperLetters == <<"A","B","C","D","E","F","G","H","I","J","K","L","M",
                  "N","O","P","Q","R","S","T","U","V","W","X","Y","Z">>
LowerLetters == <<"a","b","c","d","e","f","g","h","i","j","k","l","m",
                  "n","o","p","q","r","s","t","u","v","w","x","y","z">>

\* str.lower() on one character
LowerChar(c) ==
  IF \E i \in 1..Len(UpperLetters) : UpperLetters[i] = c
  THEN LowerLetters[CHOOSE i \in 1..Len(UpperLetters) : UpperLetters[i] = c]
  ELSE c

\* str.lower()
lower(s) == [i \in 1..Len(s) |-> LowerChar(s[i])]

\* needle in hay
Contains(hay, needle) ==
  \E i \in 0..(Len(hay) - Len(needle)) :
    \A j \in 1..Len(needle) : hay[i + j] = needle[j]

\* s[:n]
Take(s, n) == SubSeq(s, 1, Min(n, Len(s)))

(***************************************************************************)
(* Deterministic fallback rules.                                           *)
(***************************************************************************)
BUG_TRIGGERS ==
  << <<"c","r","a","s","h">>,
     <<"e","r","r","o","r">>,
     <<"e","x","c","e","p","t","i","o","n">>,
     <<"f","r","e","e","z","e">>,
     <<"n","o","t"," ","w","o","r","k","i","n","g">>,
     <<"c","a","n","'","t"," ","l","o","g","i","n">>,
     <<"c","a","n","n","o","t"," ","l","o","g","i","n">>,
     <<"l","o","g","i","n"," ","i","s","s","u","e">>,
     <<"s","t","o","p","p","e","d"," ","w","o","r","k","i","n","g">>,
     <<"d","a","t","a"," ","l","o","s","s">>,
     <<"s","y","n","c"," ","i","s","s","u","e">>,
     <<"s","y","n","c"," ","n","o","t">>,
     <<"f","a","i","l","s"," ","t","o">>,
     <<"b","u","g">> >>

FEATURE_TRIGGERS ==
  << <<"p","l","e","a","s","e"," ","a","d","d">>,
     <<"w","o","u","l","d"," ","l","o","v","e">>,
     <<"f","e","a","t","u","r","e"," ","r","e","q","u","e","s","t">>,
     <<"m","i","s","s","i","n","g">>,
     <<"c","o","u","l","d"," ","y","o","u">>,
     <<"a","d","d"," ","s","u","p","p","o","r","t">>,
     <<"a","d","d"," ","d","a","r","k"," ","m","o","d","e">> >>

PRAISE_TRIGGERS ==
  << <<"l","o","v","e">>,
     <<"a","m","a","z","i","n","g">>,
     <<"p","e","r","f","e","c","t">>,
     <<"b","e","s","t">>,
     <<"s","m","o","o","t","h">>,
     <<"w","o","r","k","s"," ","g","r","e","a","t">> >>

COMPLAINT_TRIGGERS ==
  << <<"s","l","o","w">>,
     <<"l","a","g">>,
     <<"e","x","p","e","n","s","i","v","e">>,
     <<"p","o","o","r">>,
     <<"b","a","d">>,
     <<"a","n","n","o","y","i","n","g">>,
     <<"a","d","s">>,
     <<"t","o","o"," ","m","a","n","y"," ","a","d","s">>,
     <<"p","r","i","c","e","y">>,
     <<"s","u","p","p","o","r","t"," ","i","s">> >>

SPAM_TRIGGERS ==
  << <<"h","t","t","p">>,
     <<"w","w","w">>,
     <<"v","i","s","i","t">>,
     <<"f","r","e","e">>,
     <<"m","o","n","e","y">>,
     <<"c","h","a","n","n","e","l">>,
     <<"a","s","d","f">>,
     <<"s","u","b","s","c","r","i","b","e">>,
     <<"c","o","i","n","s">>,
     <<"d","i","s","c","o","u","n","t"," ","c","o","d","e">> >>

\* Optional[float] rating: None, a number, or the NaN pandas gives a missing cell
NoneRating == [kind |-> "None", val |-> 0]
NaNRating == [kind |-> "nan", val |-> 0]
NumRating(n) == [kind |-> "num", val |-> n]

\* float comparisons: every comparison with NaN is False
FloatLe(r, n) == r.kind = "num" /\ r.val <= n
FloatGe(r, n) == r.kind = "num" /\ r.val >= n

contains_any(text, needles) ==
  LET t == lower(text)
  IN \E k \in 1..Len(needles) : Contains(t, needles[k])

StrCrash == <<"c","r","a","s","h">>
StrDataLoss == <<"d","a","t","a"," ","l","o","s","s">>
StrCantLogin == <<"c","a","n","'","t"," ","l","o","g","i","n">>
StrCannotLogin == <<"c","a","n","n","o","t"," ","l","o","g","i","n">>

\* fallback_classify with the Bug test ahead of the Spam test
fallback_classify_bug_first(text, rating) ==
  IF contains_any(text, BUG_TRIGGERS) THEN
    <<"Bug",
      IF Contains(lower(text), StrCrash) \/ Contains(lower(text), StrDataLoss)
      THEN 90 ELSE 75,
      "bug trigger">>
  ELSE IF contains_any(text, SPAM_TRIGGERS) THEN <<"Spam", 95, "spam trigger">>
  ELSE IF contains_any(text, FEATURE_TRIGGERS) THEN
    <<"Feature Request", 80, "feature trigger">>
  ELSE IF contains_any(text, PRAISE_TRIGGERS) THEN <<"Praise", 70, "praise trigger">>
  ELSE IF contains_any(text, COMPLAINT_TRIGGERS) THEN
    <<"Complaint", 70, "complaint trigger">>
  ELSE IF rating # NoneRating /\ FloatLe(rating, 2) THEN
    <<"Complaint", 55, "rating fallback">>
  ELSE IF rating # NoneRating /\ FloatGe(rating, 4) THEN
    <<"Praise", 55, "rating fallback">>
  ELSE <<"Other", 40, "default fallback">>

\* fallback_classify with the Praise test ahead of the Feature test
fallback_classify_praise_first(text, rating) ==
  IF contains_any(text, SPAM_TRIGGERS) THEN <<"Spam", 95, "spam trigger">>
  ELSE IF contains_any(text, BUG_TRIGGERS) THEN
    <<"Bug",
      IF Contains(lower(text), StrCrash) \/ Contains(lower(text), StrDataLoss)
      THEN 90 ELSE 75,
      "bug trigger">>
  ELSE IF contains_any(text, PRAISE_TRIGGERS) THEN <<"Praise", 70, "praise trigger">>
  ELSE IF contains_any(text, FEATURE_TRIGGERS) THEN
    <<"Feature Request", 80, "feature trigger">>
  ELSE IF contains_any(text, COMPLAINT_TRIGGERS) THEN
    <<"Complaint", 70, "complaint trigger">>
  ELSE IF rating # NoneRating /\ FloatLe(rating, 2) THEN
    <<"Complaint", 55, "rating fallback">>
  ELSE IF rating # NoneRating /\ FloatGe(rating, 4) THEN
    <<"Praise", 55, "rating fallback">>
  ELSE <<"Other", 40, "default fallback">>

fallback_classify(text, rating) ==
  IF contains_any(text, SPAM_TRIGGERS) THEN <<"Spam", 95, "spam trigger">>
  ELSE IF contains_any(text, BUG_TRIGGERS) THEN
    <<"Bug",
      IF Contains(lower(text), StrCrash) \/ Contains(lower(text), StrDataLoss)
      THEN 90 ELSE 75,
      "bug trigger">>
  ELSE IF contains_any(text, FEATURE_TRIGGERS) THEN
    <<"Feature Request", 80, "feature trigger">>
  ELSE IF contains_any(text, PRAISE_TRIGGERS) THEN <<"Praise", 70, "praise trigger">>
  ELSE IF contains_any(text, COMPLAINT_TRIGGERS) THEN
    <<"Complaint", 70, "complaint trigger">>
  ELSE IF rating # NoneRating /\ FloatLe(rating, 2) THEN
    <<"Complaint", 55, "rating fallback">>
  ELSE IF rating # NoneRating /\ FloatGe(rating, 4) THEN
    <<"Praise", 55, "rating fallback">>
  ELSE <<"Other", 40, "default fallback">>

StrPlatformEq == <<"P","l","a","t","f","o","r","m","=">>
StrVersionEq == <<";"," ","V","e","r","s","i","o","n","=">>
StrSummarySep == <<";"," ","S","u","m","m","a","r","y","=">>
StrFeaturePfx == <<"F","e","a","t","u","r","e",":"," ">>

SummaryLen == 140

\* fallback_bug_analysis rating a crash or a data loss Critical
fallback_bug_analysis_critical(text, platform, app_version) ==
  LET sev == IF Contains(lower(text), StrCrash) \/ Contains(lower(text), StrDataLoss)
             THEN "Critical"
             ELSE IF \/ Contains(lower(text), StrCantLogin)
                     \/ Contains(lower(text), StrCannotLogin)
             THEN "High" ELSE "Medium"
      details == StrPlatformEq \o platform \o StrVersionEq \o app_version
                 \o StrSummarySep \o Take(text, SummaryLen)
  IN <<sev, details, "rule-based severity">>

fallback_bug_analysis(text, platform, app_version) ==
  LET sev == IF \/ Contains(lower(text), StrCrash)
                \/ Contains(lower(text), StrDataLoss)
                \/ Contains(lower(text), StrCantLogin)
                \/ Contains(lower(text), StrCannotLogin)
             THEN "High" ELSE "Medium"
      details == StrPlatformEq \o platform \o StrVersionEq \o app_version
                 \o StrSummarySep \o Take(text, SummaryLen)
  IN <<sev, details, "rule-based severity">>

FEATURE_LOW == << <<"w","i","d","g","e","t">>,
                  <<"e","x","p","o","r","t">>,
                  <<"m","u","l","t","i","p","l","e"," ","a","c","c","o","u","n","t","s">> >>
FEATURE_HIGH == << <<"d","a","r","k"," ","m","o","d","e">>,
                   <<"c","a","l","e","n","d","a","r">>,
                   <<"i","n","t","e","g","r","a","t","i","o","n">> >>

fallback_feature(text) ==
  LET tl == lower(text)
      d == StrFeaturePfx \o Take(text, SummaryLen)
  IN IF \E k \in 1..Len(FEATURE_HIGH) : Contains(tl, FEATURE_HIGH[k])
     THEN <<"High", d, <<"h","i","g","h","-","i","m","p","a","c","t"," ","t","r","i","g","g","e","r">>>>
     ELSE IF \E k \in 1..Len(FEATURE_LOW) : Contains(tl, FEATURE_LOW[k])
     THEN <<"Medium", d, <<"m","e","d","i","u","m","-","i","m","p","a","c","t"," ","t","r","i","g","g","e","r">>>>
     ELSE <<"Low", d, <<"l","o","w","-","i","m","p","a","c","t"," ","d","e","f","a","u","l","t">>>>

(***************************************************************************)
(* Python values and call results.  A call either raises or returns.       *)
(***************************************************************************)
PyNone == [type |-> "NoneType"]
PyList == [type |-> "list"]
PyDict(d) == [type |-> "dict", val |-> d]

Returns(v) == [raised |-> FALSE, value |-> v]
Raises(e) == [raised |-> TRUE, exc |-> e]

isinstance_dict(v) == v.type = "dict"

\* out.get(k, default)
Get(d, k, default) == IF k \in DOMAIN d THEN d[k] ELSE default

(***************************************************************************)
(* Reasoning backend adapter (gemini_client.py).  The reply text is a      *)
(* sequence of tokens: an opening brace, a closing brace, the members of   *)
(* an object, a JSON array, or prose.                                      *)
(***************************************************************************)
LB == [t |-> "{"]
RB == [t |-> "}"]
ARR == [t |-> "[]"]
PROSE == [t |-> "prose"]
MEMBERS(d) == [t |-> "members", val |-> d]

\* json.loads: an object, the empty object or an array parses; the rest raises
json_loads(text) ==
  IF Len(text) = 3 /\ text[1] = LB /\ text[2].t = "members" /\ text[3] = RB
  THEN Returns(PyDict(text[2].val))
  ELSE IF text = <<LB, RB>> THEN Returns(PyDict(<<>>))
  ELSE IF text = <<ARR>> THEN Returns(PyList)
  ELSE Raises("JSONDecodeError")

\* str.find / str.rfind of a one-token needle, 0-based, -1 when absent
find(text, tok) ==
  IF \E i \in 1..Len(text) : text[i] = tok
  THEN (CHOOSE i \in 1..Len(text) :
          text[i] = tok /\ \A j \in 1..(i - 1) : text[j] # tok) - 1
  ELSE -1

rfind(text, tok) ==
  IF \E i \in 1..Len(text) : text[i] = tok
  THEN (CHOOSE i \in 1..Len(text) :
          text[i] = tok /\ \A j \in (i + 1)..Len(text) : text[j] # tok) - 1
  ELSE -1

\* One backend call as the environment decides it: generate_content raises
\* (transport |-> FALSE) or answers with the text reply.
Answer(reply) == [transport |-> TRUE, reply |-> reply]
TransportFailure == [transport |-> FALSE, reply |-> <<>>]

\* GeminiClient.ask_json
ask_json(g_enabled, call) ==
  IF ~g_enabled THEN Returns(PyNone)
  ELSE IF ~call.transport THEN Raises("TransportError")
  ELSE LET text == call.reply
           strict == json_loads(text)
           start == find(text, LB)
           end == rfind(text, RB)
       IN IF ~strict.raised THEN strict
          ELSE IF start # -1 /\ end # -1 /\ end > start
          THEN LET inner == json_loads(SubSeq(text, start + 1, end + 1))
               IN IF inner.raised THEN Returns(PyNone) ELSE inner
          ELSE Returns(PyNone)

(***************************************************************************)
(* Gemini-powered tools with fallback (tool_gemini.py).  Each takes the    *)
(* client's enabled flag and the backend call it would make.               *)
(***************************************************************************)
StrFeature == <<"F","e","a","t","u","r","e">>

DefaultConfidence == 60
TitleMax == 80
BodyMax == 400

classify_with_gemini(g, text, rating, call) ==
  LET r == ask_json(g, call)
  IN IF g /\ r.raised THEN r
     ELSE IF g /\ isinstance_dict(r.value) /\ "category" \in DOMAIN r.value.val
     THEN LET out == r.value.val
          IN Returns(<<Get(out, "category", "Other"),
                       Get(out, "confidence", DefaultConfidence),
                       Get(out, "brief_rationale", "")>>)
     ELSE Returns(fallback_classify(text, rating))

analyze_bug_with_gemini(g, text, platform, app_version, call) ==
  LET r == ask_json(g, call)
  IN IF g /\ r.raised THEN r
     ELSE IF g /\ isinstance_dict(r.value) /\ "severity" \in DOMAIN r.value.val
     THEN LET out == r.value.val
          IN Returns(<<Get(out, "severity", "Medium"),
                       Get(out, "technical_details", <<>>),
                       Get(out, "brief_rationale", "")>>)
     ELSE Returns(fallback_bug_analysis(text, platform, app_version))

extract_feature_with_gemini(g, text, call) ==
  LET r == ask_json(g, call)
  IN IF g /\ r.raised THEN r
     ELSE IF g /\ isinstance_dict(r.value) /\ "impact" \in DOMAIN r.value.val
     THEN LET out == r.value.val
          IN Returns(<<Get(out, "impact", "Low"),
                       Get(out, "details", StrFeaturePfx \o Take(text, SummaryLen)),
                       Get(out, "suggested_title", StrFeature)>>)
     ELSE Returns(fallback_feature(text))

compose_ticket_with_gemini(g, title_hint, body_hint, call) ==
  LET r == ask_json(g, call)
  IN IF g /\ r.raised THEN r
     ELSE IF /\ g
             /\ isinstance_dict(r.value)
             /\ "title" \in DOMAIN r.value.val
             /\ "body" \in DOMAIN r.value.val
     THEN LET out == r.value.val
          IN Returns(<<Take(out["title"], TitleMax), out["body"]>>)
     ELSE Returns(<<Take(title_hint, TitleMax), Take(body_hint, BodyMax)>>)

\* corrected[k] = v for every item of the reply except "ok"
MergeCorrections(ticket, out) ==
  [k \in DOMAIN ticket \cup (DOMAIN out \ {"ok"}) |->
     IF k \in DOMAIN out \ {"ok"} THEN out[k] ELSE ticket[k]]

critic_with_gemini(g, ticket, call) ==
  LET r == ask_json(g, call)
  IN IF g /\ r.raised THEN r
     ELSE IF g /\ isinstance_dict(r.value)
     THEN LET out == r.value.val
          IN IF "ok" \in DOMAIN out /\ out["ok"] = TRUE
             THEN Returns(ticket)
             ELSE Returns(MergeCorrections(ticket, out))
     ELSE IF /\ ticket.category \in {"Spam", "Praise"}
             /\ ticket.priority \in {"High", "Critical"}
     THEN Returns([ticket EXCEPT !.priority = "Low"])
     ELSE Returns(ticket)

(***************************************************************************)
(* Ticket creation.                                                        *)
(***************************************************************************)
create_ticket(feedback_id, source_type, category, priority, title, technical_details, confidence, link_back, now) ==
  [ ticket_id |-> <<"T">> \o feedback_id,
    source_id |-> feedback_id,
    source_type |-> source_type,
    category |-> category,
    priority |-> priority,
    title |-> title,
    technical_details |-> technical_details,
    created_at |-> now,
    confidence |-> confidence,
    link_back |-> link_back ]

(***************************************************************************)
(* Metrics.  A DataFrame is its column set and its rows; pd.DataFrame of   *)
(* a list of dicts has the dicts' keys as columns, and no column at all    *)
(* when the list is empty.                                                 *)
(***************************************************************************)
DataFrame(rows) ==
  [ columns |-> UNION {DOMAIN rows[i] : i \in 1..Len(rows)},
    rows |-> rows ]

NoExpected == [absent |-> TRUE]

CATEGORIES == <<"Bug", "Feature Request", "Praise", "Complaint", "Spam", "Other">>

\* k.lower().replace(" ", "_") on the six category names
MetricKey(k) ==
  CASE k = "Bug" -> "bug"
    [] k = "Feature Request" -> "feature_request"
    [] k = "Praise" -> "praise"
    [] k = "Complaint" -> "complaint"
    [] k = "Spam" -> "spam"
    [] k = "Other" -> "other"

\* int((processing_log["category"] == k).sum())
CountCategory(rows, k) ==
  Cardinality({i \in 1..Len(rows) : rows[i].category = k})

RECURSIVE SumConfidence(_)
SumConfidence(rows) ==
  IF rows = <<>> THEN 0
  ELSE rows[1].confidence + SumConfidence(Tail(rows))

Zero == <<0, 1>>     \* the float 0.0

\* processing_log.merge(expected, on="source_id", suffixes=("", "_expected")):
\* one joined row per pair of a log row and a reference row with equal keys
MergedPairs(log, ref) ==
  {p \in (1..Len(log.rows)) \X (1..Len(ref.rows)) :
     log.rows[p[1]].source_id = ref.rows[p[2]].source_id}

\* the reference's category column is renamed only when it collides
MergedHasCategoryExpected(log, ref) ==
  "category" \in log.columns /\ "category" \in ref.columns

\* the accuracy without the guard for an empty join
category_accuracy_unguarded(processing_log, ref) ==
  LET merged == MergedPairs(processing_log, ref)
      hit == {p \in merged :
                processing_log.rows[p[1]].category = ref.rows[p[2]].category}
  IN <<Cardinality(hit), Cardinality(merged)>>

\* line 174: the mean of the matches over the joined rows, 0.0 when none
category_accuracy(processing_log, ref) ==
  LET merged == MergedPairs(processing_log, ref)
      hit == {p \in merged :
                processing_log.rows[p[1]].category = ref.rows[p[2]].category}
  IN IF Cardinality(merged) # 0
     THEN <<Cardinality(hit), Cardinality(merged)>>
     ELSE Zero

compute_metrics(processing_log, ref) ==
  LET rows == processing_log.rows
      n == Len(rows)
      counts == [key \in {MetricKey(CATEGORIES[i]) : i \in 1..Len(CATEGORIES)} |->
                   CountCategory(rows,
                     CATEGORIES[CHOOSE i \in 1..Len(CATEGORIES) :
                                  MetricKey(CATEGORIES[i]) = key])]
      avg == IF n # 0 THEN <<SumConfidence(rows), n>> ELSE Zero
      m1 == [key \in {"total_items", "avg_confidence"} \cup DOMAIN counts |->
               IF key = "total_items" THEN n
               ELSE IF key = "avg_confidence" THEN avg
               ELSE counts[key]]
  IN IF "category" \notin processing_log.columns THEN Raises("KeyError")
     ELSE IF n # 0 /\ "confidence" \notin processing_log.columns
     THEN Raises("KeyError")
     ELSE IF ref # NoExpected /\ "category" \in ref.columns
     THEN IF "source_id" \notin processing_log.columns
             \/ "source_id" \notin ref.columns
          THEN Raises("KeyError")
          ELSE LET acc == category_accuracy(processing_log, ref)
               IN IF MergedHasCategoryExpected(processing_log, ref)
                  THEN Returns([key \in DOMAIN m1 \cup {"category_accuracy"} |->
                                  IF key = "category_accuracy" THEN acc
                                  ELSE m1[key]])
                  ELSE Returns(m1)
     ELSE Returns(m1)

(***************************************************************************)
(* The batch loop (autogen_pipeline.py, main and row_to_ticket).           *)
(***************************************************************************)
StrUnknown == <<"U","n","k","n","o","w","n">>
StrItemSfx == <<" ","i","t","e","m">>
StrSummaryEq == <<"S","u","m","m","a","r","y","=">>
StrBugPfx == <<"B","u","g",":"," ">>
StrComplaintPfx == <<"C","o","m","p","l","a","i","n","t",":"," ">>
StrPositive == <<"P","o","s","i","t","i","v","e"," ","f","e","e","d","b","a","c","k">>
StrPraise == <<"P","r","a","i","s","e">>
StrLikelySpam == <<"L","i","k","e","l","y"," ","s","p","a","m">>
StrSpam == <<"S","p","a","m">>
StrOther == <<"O","t","h","e","r">>
StrQuestion == <<"Q","u","e","s","t","i","o","n">>

\* the characters of a category name, for f"{category} item"
CategoryChars(c) ==
  CASE c = "Other" -> StrOther
    [] c = "Question" -> StrQuestion
    [] c = "Spam" -> StrSpam
    [] c = "Praise" -> StrPraise
    [] OTHER -> <<"?">>

TitleHintLen == 72
DetailLen == 240

\* a or b, on str values
Or(a, b) == IF a # <<>> THEN a ELSE b

\* row_to_ticket lines 96-105: the locals before the category branch
RowText(row) == Or(Or(Get(row, "review_text", <<>>), Get(row, "body", <<>>)), <<>>)
RowRating(row) == Get(row, "rating", NoneRating)
RowPlatform(row) == Get(row, "platform", Get(row, "device", StrUnknown))
RowVersion(row) == Get(row, "app_version", Get(row, "appVersion", StrUnknown))
RowId(row) == Get(row, "review_id", Get(row, "email_id", <<>>))

SeverityPriority(severity) ==
  IF severity \in {"Critical", "High", "Medium", "Low"} THEN severity ELSE "Medium"

ImpactPriority(impact) ==
  IF impact \in {"High", "Medium", "Low"} THEN impact ELSE "Low"

\* lines 100-102 and the branches that make no backend call (lines 117-128)
PlainBranch(text, category) ==
  IF category = "Complaint"
  THEN [priority |-> "Medium",
        details |-> StrComplaintPfx \o Take(text, DetailLen),
        title_hint |-> StrComplaintPfx \o Take(text, TitleHintLen)]
  ELSE IF category = "Praise"
  THEN [priority |-> "Low", details |-> StrPositive, title_hint |-> StrPraise]
  ELSE IF category = "Spam"
  THEN [priority |-> "Low", details |-> StrLikelySpam, title_hint |-> StrSpam]
  ELSE [priority |-> "Low",
        details |-> StrSummaryEq \o Take(text, DetailLen),
        title_hint |-> Or(Take(text, TitleHintLen),
                          CategoryChars(category) \o StrItemSfx)]

Now == "now"     \* datetime.now(), not read by any step

Idle == [stage |-> "start"]

\* the log row with category and priority taken from each other's field
LogRow_swapped(td, source_type) ==
  [ source_id |-> td.source_id,
    source_type |-> source_type,
    category |-> td.priority,
    priority |-> td.category,
    confidence |-> td.confidence ]

\* the processing-log row main() appends for the critic's ticket
LogRow(td, source_type) ==
  [ source_id |-> td.source_id,
    source_type |-> source_type,
    category |-> td.category,
    priority |-> td.priority,
    confidence |-> td.confidence ]

(***************************************************************************)
(* Inputs of the batch: the rows read from the two CSV files, the          *)
(* reference table, and what the backend does at each call.                *)
(***************************************************************************)
Digits == <<"1", "2", "3", "4", "5", "6">>

TxtEmpty == <<>>
TxtCrash == <<"A","p","p"," ","C","r","a","s","h">>
TxtFeature == <<"a","d","d"," ","d","a","r","k"," ","m","o","d","e">>
TxtSpam == <<"w","w","w">>
TxtPraise == <<"l","o","v","e"," ","i","t">>

TxtSlow == <<"s","l","o","w">>
TxtLogin == <<"C","a","n","n","o","t"," ","l","o","g","i","n">>
TxtExport == <<"p","l","e","a","s","e"," ","a","d","d"," ","e","x","p","o","r","t">>

TxtMissing == <<"S","e","a","r","c","h"," ","i","s"," ","m","i","s","s","i","n","g">>
TxtSync == <<"S","y","n","c"," ","i","s","s","u","e">>

\* (review_text, rating) of a review row.  With the backend enabled every
\* call has several outcomes, so the batch is drawn from fewer rows.
ReviewCells(g) ==
  IF g THEN { <<TxtCrash, NaNRating>>, <<TxtSpam, NumRating(5)>> }
  ELSE { <<TxtEmpty, NumRating(1)>>, <<TxtEmpty, NumRating(5)>>,
         <<TxtEmpty, NumRating(3)>>, <<TxtCrash, NaNRating>>,
         <<TxtSpam, NumRating(5)>>, <<TxtSlow, NoneRating>>,
         <<TxtExport, NumRating(4)>>, <<TxtMissing, NumRating(1)>> }

\* body of a support email row
EmailCells(g) ==
  IF g THEN { TxtFeature }
  ELSE { TxtPraise, TxtFeature, TxtLogin, TxtEmpty, TxtSync }

ReviewRow(i, cell) ==
  [review_id |-> <<"r", Digits[i]>>, review_text |-> cell[1], rating |-> cell[2]]

EmailRow(i, body) == [email_id |-> <<"e", Digits[i]>>, body |-> body]

ReviewTables(g) ==
  UNION { { [i \in 1..n |-> ReviewRow(i, c[i])] : c \in [1..n -> ReviewCells(g)] } :
          n \in 0..MaxItems }

EmailTables(g) ==
  UNION { { [i \in 1..n |-> EmailRow(i, c[i])] : c \in [1..n -> EmailCells(g)] } :
          n \in 0..MaxItems }

ExpectedTables ==
  { NoExpected,
    DataFrame(<< [source_id |-> <<"r", "1">>, category |-> "Bug"],
                 [source_id |-> <<"e", "1">>, category |-> "Spam"] >>) }

LongTitle == [i \in 1..(TitleMax + 5) |-> "x"]

ClassifyCalls ==
  { TransportFailure,
    Answer(<<PROSE>>),
    Answer(<<ARR>>),
    Answer(<<LB, MEMBERS([confidence |-> 88]), RB>>),
    Answer(<<PROSE, LB, MEMBERS([category |-> "Question"]), RB, PROSE>>) }

BugCalls ==
  { TransportFailure,
    Answer(<<LB, RB>>),
    Answer(<<LB, MEMBERS([severity |-> "Critical"]), RB>>),
    Answer(<<LB, MEMBERS([severity |-> "Urgent",
                          technical_details |-> <<"d">>]), RB>>) }

FeatureCalls ==
  { TransportFailure,
    Answer(<<LB, MEMBERS([details |-> <<"d">>]), RB, RB, LB>>),
    Answer(<<LB, MEMBERS([impact |-> "High"]), RB>>),
    Answer(<<LB, MEMBERS([impact |-> "Huge", suggested_title |-> LongTitle]), RB>>) }

ComposeCalls ==
  { TransportFailure,
    Answer(<<>>),
    Answer(<<LB, MEMBERS([title |-> <<"t">>]), RB>>),
    Answer(<<LB, MEMBERS([title |-> LongTitle, body |-> <<>>]), RB>>) }

CriticCalls ==
  { TransportFailure,
    Answer(<<PROSE>>),
    Answer(<<LB, MEMBERS([ok |-> TRUE]), RB>>),
    Answer(<<LB, MEMBERS([ok |-> FALSE, priority |-> "High"]), RB>>),
    Answer(<<LB, MEMBERS([ticket_id |-> <<"T", "9">>, title |-> LongTitle]), RB>>) }

(***************************************************************************)
(* main(): state after construction and one action per step.  A backend    *)
(* call is the only point where a row's processing waits; an exception     *)
(* that no handler catches ends main().                                    *)
(***************************************************************************)
UnitIdle == arg = <<>> /\ ret = <<>> /\ phase = "idle"

Init ==
  /\ enabled \in BOOLEAN
  /\ reviews \in ReviewTables(enabled)
  /\ emails \in EmailTables(enabled)
  /\ Len(reviews) + Len(emails) <= MaxItems
  /\ expected = NoExpected
  /\ pc = "reviews"
  /\ idx = 0
  /\ cur = Idle
  /\ tickets = <<>>
  /\ processing_rows = <<>>
  /\ metrics = <<>>
  /\ fault = "none"
  /\ UnitIdle

Halt(exc) ==
  /\ pc' = "halted"
  /\ fault' = exc
  /\ UNCHANGED << enabled, reviews, emails, expected, idx, cur, tickets,
                  processing_rows, metrics >>

\* the rows of the loop main() is in, and that loop's source type
LoopRows == IF pc = "reviews" THEN reviews ELSE emails
LoopSource == IF pc = "reviews" THEN "App Store Review" ELSE "Support Email"

\* row_to_ticket lines 96-105 and 117-128: classify, then the branches
\* that need no further backend call
Classify ==
  /\ pc \in {"reviews", "emails"}
  /\ cur.stage = "start"
  /\ idx < Len(LoopRows)
  /\ \E call \in ClassifyCalls :
       LET row == LoopRows[idx + 1]
           text == RowText(row)
           r == classify_with_gemini(enabled, text, RowRating(row), call)
       IN IF r.raised THEN Halt(r.exc)
          ELSE LET category == r.value[1]
                   plain == PlainBranch(text, category)
               IN /\ cur' = [ stage |-> IF category = "Bug" THEN "bug"
                                        ELSE IF category = "Feature Request"
                                        THEN "feature" ELSE "branched",
                              row |-> row,
                              text |-> text,
                              category |-> category,
                              conf |-> r.value[2],
                              priority |-> plain.priority,
                              title_hint |-> plain.title_hint,
                              details |-> plain.details ]
                  /\ UNCHANGED << enabled, reviews, emails, expected, pc, idx,
                                  tickets, processing_rows, metrics, fault >>
  /\ UNCHANGED unitVars

\* lines 106-111
AnalyzeBug ==
  /\ pc \in {"reviews", "emails"}
  /\ cur.stage = "bug"
  /\ \E call \in BugCalls :
       LET r == analyze_bug_with_gemini(enabled, cur.text, RowPlatform(cur.row),
                                        RowVersion(cur.row), call)
       IN IF r.raised THEN Halt(r.exc)
          ELSE /\ cur' = [cur EXCEPT !.stage = "branched",
                                     !.details = r.value[2],
                                     !.priority = SeverityPriority(r.value[1]),
                                     !.title_hint = StrBugPfx \o Take(cur.text, TitleHintLen)]
               /\ UNCHANGED << enabled, reviews, emails, expected, pc, idx,
                               tickets, processing_rows, metrics, fault >>
  /\ UNCHANGED unitVars

\* lines 112-116
ExtractFeature ==
  /\ pc \in {"reviews", "emails"}
  /\ cur.stage = "feature"
  /\ \E call \in FeatureCalls :
       LET r == extract_feature_with_gemini(enabled, cur.text, call)
       IN IF r.raised THEN Halt(r.exc)
          ELSE /\ cur' = [cur EXCEPT !.stage = "branched",
                                     !.details = r.value[2],
                                     !.priority = ImpactPriority(r.value[1]),
                                     !.title_hint =
                                        Or(r.value[3],
                                           StrFeaturePfx \o Take(cur.text, TitleHintLen))]
               /\ UNCHANGED << enabled, reviews, emails, expected, pc, idx,
                               tickets, processing_rows, metrics, fault >>
  /\ UNCHANGED unitVars

\* lines 130-142: compose, then build the ticket
Compose ==
  /\ pc \in {"reviews", "emails"}
  /\ cur.stage = "branched"
  /\ \E call \in ComposeCalls :
       LET r == compose_ticket_with_gemini(enabled, cur.title_hint, cur.details, call)
       IN IF r.raised THEN Halt(r.exc)
          ELSE LET title == r.value[1]
                   body == r.value[2]
                   t == create_ticket(RowId(cur.row), LoopSource, cur.category,
                                      cur.priority, title, Or(body, cur.details),
                                      cur.conf, Get(cur.row, "url", <<>>), Now)
               IN /\ cur' = [stage |-> "built", t |-> t]
                  /\ UNCHANGED << enabled, reviews, emails, expected, pc, idx,
                                  tickets, processing_rows, metrics, fault >>
  /\ UNCHANGED unitVars

\* lines 150-159 and 164-173: critic, then both appends
Critic ==
  /\ pc \in {"reviews", "emails"}
  /\ cur.stage = "built"
  /\ \E call \in CriticCalls :
       LET r == critic_with_gemini(enabled, cur.t, call)
       IN IF r.raised THEN Halt(r.exc)
          ELSE LET td == r.value
               IN /\ tickets' = Append(tickets, td)
                  /\ processing_rows' = Append(processing_rows, LogRow(td, LoopSource))
                  /\ idx' = idx + 1
                  /\ cur' = Idle
                  /\ UNCHANGED << enabled, reviews, emails, expected, pc,
                                  metrics, fault >>
  /\ UNCHANGED unitVars

\* the review loop is exhausted (line 148)
EndReviews ==
  /\ pc = "reviews" /\ cur.stage = "start" /\ idx = Len(reviews)
  /\ pc' = "emails"
  /\ idx' = 0
  /\ UNCHANGED << enabled, reviews, emails, expected, cur, tickets,
                  processing_rows, metrics, fault, arg, ret, phase >>

\* the email loop is exhausted (line 162)
EndEmails ==
  /\ pc = "emails" /\ cur.stage = "start" /\ idx = Len(emails)
  /\ pc' = "metrics"
  /\ UNCHANGED << enabled, reviews, emails, expected, idx, cur, tickets,
                  processing_rows, metrics, fault, arg, ret, phase >>

\* lines 175-187: the reference table is read here, when its file exists
ComputeMetrics ==
  /\ pc = "metrics"
  /\ \E ref \in ExpectedTables :
       LET r == compute_metrics(DataFrame(processing_rows), ref)
       IN /\ expected' = ref
          /\ IF r.raised
             THEN /\ pc' = "halted"
                  /\ fault' = r.exc
                  /\ UNCHANGED metrics
             ELSE /\ metrics' = r.value
                  /\ pc' = "done"
                  /\ UNCHANGED fault
  /\ UNCHANGED << enabled, reviews, emails, idx, cur, tickets, processing_rows >>
  /\ UNCHANGED unitVars

Next ==
  \/ Classify
  \/ AnalyzeBug
  \/ ExtractFeature
  \/ Compose
  \/ Critic
  \/ EndReviews
  \/ EndEmails
  \/ ComputeMetrics

Spec == Init /\ [][Next]_vars

(***************************************************************************)
(* Unit checks: one function applied to inputs drawn from bounded sets.    *)
(* The pipeline's variables stay at rest.                                  *)
(***************************************************************************)
PipelineIdle ==
  /\ enabled = FALSE
  /\ reviews = <<>>
  /\ emails = <<>>
  /\ expected = NoExpected
  /\ pc = "unit"
  /\ idx = 0
  /\ cur = Idle
  /\ tickets = <<>>
  /\ processing_rows = <<>>
  /\ metrics = <<>>
  /\ fault = "none"

RECURSIVE Concat(_)
Concat(ss) == IF ss = <<>> THEN <<>> ELSE ss[1] \o Concat(Tail(ss))

SeqsUpTo(S, n) == UNION { [1..k -> S] : k \in 0..n }

\* fragments a text is put together from
Frags ==
  { <<"f","r","e","e">>, <<"z","e">>, <<"C","r","a","s","h">>,
    <<"b","u","g">>, <<"w","o","u","l","d"," ">>, <<"l","o","v","e">>,
    <<"b","a","d">>, <<"m","i","s","s","i","n","g">>, <<"H","T","T","P">>,
    <<"o","k"," ">>, <<"d","a","t","a"," ","l","o","s","s">> }

Texts == { Concat(fs) : fs \in SeqsUpTo(Frags, MaxFrags) }

Ratings == { NoneRating, NaNRating } \cup { NumRating(n) : n \in 1..5 }

\* ---- fallback_classify ----
InitClassify ==
  /\ PipelineIdle
  /\ arg \in [text : Texts, rating : Ratings]
  /\ ret = <<>>
  /\ phase = "call"

CallFallbackClassify ==
  /\ phase = "call"
  /\ ret' = fallback_classify(arg.text, arg.rating)
  /\ phase' = "returned"
  /\ UNCHANGED << arg, enabled, reviews, emails, expected, pc, idx, cur,
                  tickets, processing_rows, metrics, fault >>

SpecClassify == InitClassify /\ [][CallFallbackClassify]_vars

\* ---- GeminiClient.ask_json ----
ReplyTokens == { LB, RB, ARR, PROSE, MEMBERS([category |-> "Bug"]) }

Replies == SeqsUpTo(ReplyTokens, MaxReplyLen)

InitAsk ==
  /\ PipelineIdle
  /\ arg \in [g : BOOLEAN, call : {TransportFailure} \cup { Answer(r) : r \in Replies }]
  /\ ret = <<>>
  /\ phase = "call"

CallAskJson ==
  /\ phase = "call"
  /\ ret' = ask_json(arg.g, arg.call)
  /\ phase' = "returned"
  /\ UNCHANGED << arg, enabled, reviews, emails, expected, pc, idx, cur,
                  tickets, processing_rows, metrics, fault >>

SpecAsk == InitAsk /\ [][CallAskJson]_vars

\* ---- the four decision steps ----
StepCalls(step) ==
  CASE step = "classify" -> ClassifyCalls
    [] step = "analyze_bug" -> BugCalls
    [] step = "extract_feature" -> FeatureCalls
    [] step = "compose" -> ComposeCalls

StepNames == {"classify", "analyze_bug", "extract_feature", "compose"}

StepArgs ==
  { [step |-> st, g |-> g, call |-> c, text |-> tx, rating |-> rt, hint |-> h] :
      st \in StepNames, g \in BOOLEAN,
      c \in ClassifyCalls \cup BugCalls \cup FeatureCalls \cup ComposeCalls,
      tx \in {TxtEmpty, TxtCrash, TxtFeature},
      rt \in {NoneRating, NumRating(5)},
      h \in {LongTitle, StrSpam} }

InitSteps ==
  /\ PipelineIdle
  /\ arg \in StepArgs
  /\ arg.call \in StepCalls(arg.step)
  /\ ret = <<>>
  /\ phase = "call"

StepReturn(r) ==
  /\ phase = "call"
  /\ ret' = r
  /\ phase' = "returned"
  /\ UNCHANGED << arg, enabled, reviews, emails, expected, pc, idx, cur,
                  tickets, processing_rows, metrics, fault >>

CallClassifyStep ==
  /\ arg.step = "classify"
  /\ StepReturn(classify_with_gemini(arg.g, arg.text, arg.rating, arg.call))

CallAnalyzeBugStep ==
  /\ arg.step = "analyze_bug"
  /\ StepReturn(analyze_bug_with_gemini(arg.g, arg.text, StrUnknown, StrUnknown,
                                        arg.call))

CallExtractFeatureStep ==
  /\ arg.step = "extract_feature"
  /\ StepReturn(extract_feature_with_gemini(arg.g, arg.text, arg.call))

\* the body hint is the text
CallComposeStep ==
  /\ arg.step = "compose"
  /\ StepReturn(compose_ticket_with_gemini(arg.g, arg.hint, arg.text, arg.call))

NextSteps ==
  \/ CallClassifyStep
  \/ CallAnalyzeBugStep
  \/ CallExtractFeatureStep
  \/ CallComposeStep

SpecSteps == InitSteps /\ [][NextSteps]_vars

\* ---- compute_metrics ----
LogCell(id, cat) ==
  [ source_id |-> id, source_type |-> "App Store Review", category |-> cat,
    priority |-> "Low", confidence |-> IF cat = "Spam" THEN 95 ELSE 40 ]

SourceIds == { <<"r", "1">>, <<"e", "1">> }

LogCells == { LogCell(id, cat) : id \in SourceIds, cat \in {"Bug", "Spam", "Question"} }

\* a log built from rows, or an empty log that still has its columns
LogFrames ==
  { DataFrame(rows) : rows \in SeqsUpTo(LogCells, MaxLogRows) }
  \cup { [columns |-> DOMAIN LogCell(<<>>, "Bug"), rows |-> <<>>] }

RefCells == { [source_id |-> id, category |-> cat] :
                id \in SourceIds, cat \in {"Bug", "Spam"} }

\* the same reference with its category column named otherwise
Relabel(row) == [source_id |-> row.source_id, label |-> row.category]

RefFrames ==
  { NoExpected }
  \cup { [columns |-> {"source_id", "category"}, rows |-> rows] :
           rows \in SeqsUpTo(RefCells, MaxRefRows) }
  \cup { [columns |-> {"source_id", "label"},
          rows |-> [i \in 1..Len(rows) |-> Relabel(rows[i])]] :
           rows \in SeqsUpTo(RefCells, MaxRefRows) }

InitMetrics ==
  /\ PipelineIdle
  /\ arg \in [log : LogFrames, ref : RefFrames]
  /\ ret = <<>>
  /\ phase = "call"

CallComputeMetrics ==
  /\ phase = "call"
  /\ ret' = compute_metrics(arg.log, arg.ref)
  /\ phase' = "returned"
  /\ UNCHANGED << arg, enabled, reviews, emails, expected, pc, idx, cur,
                  tickets, processing_rows, metrics, fault >>

SpecMetrics == InitMetrics /\ [][CallComputeMetrics]_vars

(***************************************************************************)
(* Properties.                                                             *)
(***************************************************************************)
BatchSize == Len(reviews) + Len(emails)

\* both loops have run to their end
LoopsDone == pc \in {"metrics", "done"} \/ (pc = "halted" /\ fault = "KeyError")

\* C1: whatever a backend call does (no credential, transport failure,
\* unparseable reply, reply without the step's key), every item is processed
\* to the end, with one ticket and one log entry each, and main() is never
\* ended by a backend failure.
C1_BackendFailureNeverHalts ==
  /\ fault # "TransportError"
  /\ LoopsDone => Len(tickets) = BatchSize /\ Len(processing_rows) = BatchSize

\* C2: ask_json never raises: it returns a parsed JSON value or None.
C2_AskJsonNeverRaises ==
  phase = "returned" =>
    /\ ~ret.raised
    /\ ret.value.type \in {"dict", "list", "NoneType"}

\* C3: every ticket in the batch whose category is Spam or Praise has
\* priority Low.
C3_SpamPraiseAreLow ==
  \A i \in 1..Len(tickets) :
    tickets[i].category \in {"Spam", "Praise"} => tickets[i].priority = "Low"

\* C4: every ticket in the batch has ticket_id = "T" + source_id.
C4_TicketIdIsTPlusSourceId ==
  \A i \in 1..Len(tickets) :
    tickets[i].ticket_id = <<"T">> \o tickets[i].source_id

\* the keys a step requires of the backend's object
RequiredKeys(step) ==
  CASE step = "classify" -> {"category"}
    [] step = "analyze_bug" -> {"severity"}
    [] step = "extract_feature" -> {"impact"}
    [] step = "compose" -> {"title", "body"}

\* the fallback rule of a step on the step's inputs
FallbackOf(a) ==
  CASE a.step = "classify" -> fallback_classify(a.text, a.rating)
    [] a.step = "analyze_bug" -> fallback_bug_analysis(a.text, StrUnknown, StrUnknown)
    [] a.step = "extract_feature" -> fallback_feature(a.text)
    [] a.step = "compose" -> <<Take(a.hint, TitleMax), Take(a.text, BodyMax)>>

\* the backend's object taken over, optional fields defaulted
AcceptedOf(a, obj) ==
  CASE a.step = "classify" ->
         <<obj.category,
           IF "confidence" \in DOMAIN obj THEN obj.confidence ELSE 60,
           IF "brief_rationale" \in DOMAIN obj THEN obj.brief_rationale ELSE "">>
    [] a.step = "analyze_bug" ->
         <<obj.severity,
           IF "technical_details" \in DOMAIN obj THEN obj.technical_details ELSE <<>>,
           IF "brief_rationale" \in DOMAIN obj THEN obj.brief_rationale ELSE "">>
    [] a.step = "extract_feature" ->
         <<obj.impact,
           IF "details" \in DOMAIN obj THEN obj.details
           ELSE StrFeaturePfx \o Take(a.text, 140),
           IF "suggested_title" \in DOMAIN obj THEN obj.suggested_title
           ELSE StrFeature>>
    [] a.step = "compose" -> <<Take(obj.title, 80), obj.body>>

\* the backend answered with text that holds a JSON object
HoldsObject(call) ==
  /\ call.transport
  /\ \E i, j \in 1..Len(call.reply) :
       /\ \A k \in 1..(i - 1) : call.reply[k] # LB
       /\ \A k \in (j + 1)..Len(call.reply) : call.reply[k] # RB
       /\ call.reply[i] = LB /\ call.reply[j] = RB
       /\ \/ j = i + 1
          \/ j = i + 2 /\ call.reply[i + 1].t = "members"

ObjectOf(call) ==
  LET i == CHOOSE k \in 1..Len(call.reply) : call.reply[k] = LB
  IN IF call.reply[i + 1] = RB THEN <<>> ELSE call.reply[i + 1].val

\* C5: at each decision step, when the backend is unavailable (no
\* credential, or the call or the parse failed), or its reply is no JSON
\* object, or the object lacks the step's required key, the step returns
\* what its fallback rule returns on the same inputs; otherwise it returns
\* the object's fields with the missing optional ones defaulted.
C5_StepFallsBackOrAccepts ==
  phase = "returned" =>
    IF /\ arg.g
       /\ HoldsObject(arg.call)
       /\ RequiredKeys(arg.step) \subseteq DOMAIN ObjectOf(arg.call)
    THEN ret = Returns(AcceptedOf(arg, ObjectOf(arg.call)))
    ELSE ret = Returns(FallbackOf(arg))

\* The step policy as far as the code keeps it: the same statement, for
\* every call that does not fail in transport.
StepFallsBackOrAcceptsWhenAnswered ==
  (phase = "returned" /\ (arg.g => arg.call.transport)) =>
    IF /\ arg.g
       /\ HoldsObject(arg.call)
       /\ RequiredKeys(arg.step) \subseteq DOMAIN ObjectOf(arg.call)
    THEN ret = Returns(AcceptedOf(arg, ObjectOf(arg.call)))
    ELSE ret = Returns(FallbackOf(arg))

\* some word of the list occurs in the text, letter case ignored
Mentions(text, words) ==
  \E k \in 1..Len(words) :
    \E i \in 1..Len(text) :
      /\ i + Len(words[k]) - 1 <= Len(text)
      /\ \A j \in 1..Len(words[k]) : LowerChar(text[i + j - 1]) = words[k][j]

\* C6: a text that contains a Spam trigger is classified Spam with
\* confidence 0.95, whatever the rating and whatever else it contains.
C6_SpamPreempts ==
  (phase = "returned" /\ Mentions(arg.text, SPAM_TRIGGERS)) =>
    ret[1] = "Spam" /\ ret[2] = 95

\* a text with a Spam trigger inside a Bug trigger ("freeze") came back Spam
C6_Witness ==
  /\ phase = "returned"
  /\ Mentions(arg.text, SPAM_TRIGGERS)
  /\ Mentions(arg.text, BUG_TRIGGERS)
  /\ arg.rating = NumRating(1)
  /\ ret[1] = "Spam"

\* C7: without a Spam trigger the first match wins in the order Bug (0.9
\* with "crash" or "data loss", else 0.75), Feature Request (0.8), Praise
\* (0.7), Complaint (0.7); with no match a rating <= 2 gives Complaint
\* (0.55), a rating >= 4 gives Praise (0.55), and everything else gives
\* Other (0.4); the empty text with rating 1 gives Complaint (0.55).
C7_Waterfall ==
  (phase = "returned" /\ ~Mentions(arg.text, SPAM_TRIGGERS)) =>
    LET bug == Mentions(arg.text, BUG_TRIGGERS)
        feature == Mentions(arg.text, FEATURE_TRIGGERS)
        praise == Mentions(arg.text, PRAISE_TRIGGERS)
        complaint == Mentions(arg.text, COMPLAINT_TRIGGERS)
        none == ~bug /\ ~feature /\ ~praise /\ ~complaint
        severe == Mentions(arg.text, <<StrCrash, StrDataLoss>>)
        r == arg.rating
    IN /\ bug => ret[1] = "Bug" /\ ret[2] = (IF severe THEN 90 ELSE 75)
       /\ (~bug /\ feature) => ret[1] = "Feature Request" /\ ret[2] = 80
       /\ (~bug /\ ~feature /\ praise) => ret[1] = "Praise" /\ ret[2] = 70
       /\ (~bug /\ ~feature /\ ~praise /\ complaint) =>
            ret[1] = "Complaint" /\ ret[2] = 70
       /\ (none /\ r.kind = "num" /\ r.val <= 2) =>
            ret[1] = "Complaint" /\ ret[2] = 55
       /\ (none /\ r.kind = "num" /\ r.val >= 4) =>
            ret[1] = "Praise" /\ ret[2] = 55
       /\ (none /\ ~(r.kind = "num" /\ (r.val <= 2 \/ r.val >= 4))) =>
            ret[1] = "Other" /\ ret[2] = 40
       /\ (arg.text = <<>> /\ r = NumRating(1)) =>
            ret[1] = "Complaint" /\ ret[2] = 55

\* "would love": a Feature trigger that holds a Praise trigger came back
\* Feature Request
C7_Witness ==
  /\ phase = "returned"
  /\ ~Mentions(arg.text, SPAM_TRIGGERS)
  /\ ~Mentions(arg.text, BUG_TRIGGERS)
  /\ Mentions(arg.text, FEATURE_TRIGGERS)
  /\ Mentions(arg.text, PRAISE_TRIGGERS)
  /\ ret[1] = "Feature Request"

\* C8: for a batch of any size, zero included, the metrics computation of
\* main() ends without a fault, total_items is the number of log rows, and
\* on an empty log total_items is 0 and avg_confidence is 0.0.
C8_MetricsNeverFault ==
  /\ fault # "KeyError"
  /\ pc = "done" =>
       /\ metrics.total_items = Len(processing_rows)
       /\ processing_rows = <<>> =>
            metrics.total_items = 0 /\ metrics.avg_confidence = Zero

\* the joined rows of a log and a reference, and those that agree
Joined(log, ref) ==
  { q \in (1..Len(log.rows)) \X (1..Len(ref.rows)) :
      log.rows[q[1]].source_id = ref.rows[q[2]].source_id }

Agreeing(log, ref) ==
  { q \in Joined(log, ref) : log.rows[q[1]].category = ref.rows[q[2]].category }

HasCategoryColumn(ref) == ref # NoExpected /\ "category" \in ref.columns

Completed ==
  CASE pc = "reviews" -> idx
    [] pc = "emails" -> Len(reviews) + idx
    [] pc \in {"metrics", "done"} -> BatchSize
    [] OTHER -> Len(tickets)

\* C10: the log has one entry per processed item, in processing order
\* (reviews first, each group in input order), and its i-th entry carries
\* the source_id, category, priority and confidence of the i-th ticket.
C10_LogFollowsTickets ==
  /\ Len(processing_rows) = Len(tickets)
  /\ Len(processing_rows) = Completed
  /\ LoopsDone => Len(processing_rows) = BatchSize
  /\ \A i \in 1..Len(processing_rows) :
       /\ processing_rows[i].source_id = tickets[i].source_id
       /\ processing_rows[i].category = tickets[i].category
       /\ processing_rows[i].priority = tickets[i].priority
       /\ processing_rows[i].confidence = tickets[i].confidence
       /\ processing_rows[i].source_type =
            IF i <= Len(reviews) THEN "App Store Review" ELSE "Support Email"
  /\ (pc \in {"reviews", "emails"} /\ cur.stage \in {"bug", "feature", "branched"}) =>
       cur.row = LoopRows[idx + 1]
  /\ (pc \in {"reviews", "emails"} /\ cur.stage = "built") =>
       /\ cur.t.source_id = RowId(LoopRows[idx + 1])
       /\ cur.t.source_type = LoopSource

\* a finished batch of a review and an email whose first ticket the critic
\* corrected
C10_Witness ==
  /\ pc = "done"
  /\ Len(reviews) = 1
  /\ Len(emails) = 1
  /\ Len(processing_rows) = 2
  /\ tickets[1].category = "Spam"
  /\ tickets[1].priority = "High"
  /\ processing_rows[1].priority = "High"
  /\ processing_rows[2].source_type = "Support Email"

\* C11: every ticket in the batch has a title of at most 80 characters,
\* however it was composed and whichever path the critic took.
C11_TitleAtMost80 ==
  \A i \in 1..Len(tickets) : Len(tickets[i].title) <= 80

\* The title as far as the code bounds it: the ticket that row_to_ticket
\* builds, before the critic sees it.
BuiltTitleAtMost80 ==
  (pc \in {"reviews", "emails"} /\ cur.stage = "built") => Len(cur.t.title) <= 80

\* the input rows in processing order, and the text of the i-th
BatchRows == reviews \o emails
BatchText(i) ==
  IF "review_text" \in DOMAIN BatchRows[i] THEN BatchRows[i].review_text
  ELSE BatchRows[i].body

\* C12: without a credential the priority of every ticket follows from its
\* category: Bug is High with a crash, data-loss or login-failure marker in
\* the text and Medium without; Feature Request is High, Medium or Low by
\* the impact keyword matched, Low by default; Complaint is Medium; Praise,
\* Spam and Other are Low.  No ticket is Critical or NeedsReview.
C12_FallbackPriorityByCategory ==
  ~enabled =>
    \A i \in 1..Len(tickets) :
      LET t == tickets[i]
          text == BatchText(i)
          marker == Mentions(text, <<StrCrash, StrDataLoss, StrCantLogin, StrCannotLogin>>)
      IN /\ t.priority \notin {"Critical", "NeedsReview"}
         /\ t.category \in {"Bug", "Feature Request", "Complaint", "Praise", "Spam", "Other"}
         /\ t.category = "Bug" => t.priority = (IF marker THEN "High" ELSE "Medium")
         /\ t.category = "Feature Request" =>
              t.priority = (IF Mentions(text, FEATURE_HIGH) THEN "High"
                            ELSE IF Mentions(text, FEATURE_LOW) THEN "Medium"
                            ELSE "Low")
         /\ t.category = "Complaint" => t.priority = "Medium"
         /\ t.category \in {"Praise", "Spam", "Other"} => t.priority = "Low"

\* a finished fallback-only batch with a crash report rated High and a bug
\* report without a marker rated Medium
C12_Witness ==
  /\ ~enabled
  /\ pc = "done"
  /\ Len(tickets) = 2
  /\ tickets[1].category = "Bug" /\ tickets[1].priority = "High"
  /\ Mentions(BatchText(1), <<StrCrash>>)
  /\ tickets[2].category = "Bug" /\ tickets[2].priority = "Medium"

\* the six per-category counts of a metrics summary, added up
SixCounts(m) ==
  m.bug + m.feature_request + m.praise + m.complaint + m.spam + m.other

\* C13: in the metrics summary of a processed batch the six per-category
\* counts add up to total_items, whichever path produced each category.
C13_CountsSumToTotal ==
  pc = "done" => SixCounts(metrics) = metrics.total_items

\* The sum as far as the code keeps it: without a credential every category
\* comes from the fallback rules.
CountsSumToTotalInFallbackMode ==
  (pc = "done" /\ ~enabled) => SixCounts(metrics) = metrics.total_items

====
